---- MODULE Spec2Model ----
(***************************************************************************)
(* Model of htoz_tablegen.py: the generator of the half-width to           *)
(* full-width SHIFT_JIS lookup table.                                      *)
(*                                                                         *)
(* Characters are Unicode code points, byte strings are sequences of       *)
(* numbers 0..255, printed lines are strings.  gen_mapping() and output()  *)
(* are the two functions of the module; a caller (the __main__ block, or   *)
(* code importing the module) calls them one at a time.  Each loop         *)
(* iteration is one step, so that the table an exception leaves behind is  *)
(* a state of the model.                                                   *)
(***************************************************************************)
EXTENDS Integers, Sequences, FiniteSets, TLC

VARIABLES
    HANKAKU,   \* the half-width table: a sequence of code points
    ZENKAKU,   \* the full-width table: a sequence of code points
    MAPPING,   \* the module-level list of (byte_index, b0, b1) triples
    pc,        \* "idle" | "gen" | "output" | "raised"
    i,         \* the loop position of the running call (0-based, as enumerate)
    out,       \* the lines printed by the output() call running or last run
    printed,   \* one record per completed output() call
    calls,     \* the number of calls started
    gens,      \* the number of gen_mapping() calls that returned
    err        \* the exception that ended the run, with the line that raised it

vars == <<HANKAKU, ZENKAKU, MAPPING, pc, i, out, printed, calls, gens, err>>

\* Bounds of the model.
MaxLen == 2      \* longest table that is not the program's own
MaxCalls == 4    \* calls of gen_mapping()/output() in one process

(***************************************************************************)
(* The tables of the program (lines 6 and 7), as code points.              *)
(***************************************************************************)
FixedZENKAKU ==
    << 12288, 65281, 65311,  8230, 12290, 12300, 12301, 12289,
       12434, 12353, 12355, 12357, 12359, 12361, 12419, 12421,
       12423, 12387, 12540, 12354, 12356, 12358, 12360, 12362,
       12363, 12365, 12367, 12369, 12371, 12373, 12375, 12377,
       12379, 12381, 12383, 12385, 12388, 12390, 12392, 12394,
       12395, 12396, 12397, 12398, 12399, 12402, 12405, 12408,
       12411, 12414, 12415, 12416, 12417, 12418, 12420, 12422,
       12424, 12425, 12426, 12427, 12428, 12429, 12431, 12435 >>

FixedHANKAKU ==
    <<   160,    33,    63, 65381, 65377, 65378, 65379, 65380,
       65382, 65383, 65384, 65385, 65386, 65387, 65388, 65389,
       65390, 65391, 65392, 65393, 65394, 65395, 65396, 65397,
       65398, 65399, 65400, 65401, 65402, 65403, 65404, 65405,
       65406, 65407, 65408, 65409, 65410, 65411, 65412, 65413,
       65414, 65415, 65416, 65417, 65418, 65419, 65420, 65421,
       65422, 65423, 65424, 65425, 65426, 65427, 65428, 65429,
       65430, 65431, 65432, 65433, 65434, 65435, 65436, 65437 >>

(***************************************************************************)
(* Other tables the functions are run on: every pair of sequences up to    *)
(* MaxLen over characters of each kind the encoders tell apart.            *)
(*   half-width side: U+000A (one byte, below 0x10); U+20AC (no SHIFT_JIS  *)
(*     form); U+3042 (two bytes).                                          *)
(*   full-width side: U+3002 (two bytes); U+20AC and U+00E9 (no SHIFT_JIS  *)
(*     form, escaped as \u.... and \x..); U+0041 (one byte).               *)
(***************************************************************************)
HChars == {10, 8364, 12354}
ZChars == {12290, 8364, 233, 65}

RECURSIVE SeqsUpTo(_, _)
SeqsUpTo(S, n) ==
    IF n = 0 THEN {<<>>}
    ELSE LET shorter == SeqsUpTo(S, n - 1)
         IN  shorter \cup {Append(s, c) : s \in {t \in shorter : Len(t) = n - 1}, c \in S}

TablePairs ==
    {<<FixedHANKAKU, FixedZENKAKU>>}
        \cup (SeqsUpTo(HChars, MaxLen) \X SeqsUpTo(ZChars, MaxLen))

NoError == [exc |-> "none", line |-> 0]

Init ==
    /\ \E t \in TablePairs : HANKAKU = t[1] /\ ZENKAKU = t[2]
    /\ MAPPING = <<>>
    /\ pc = "idle"
    /\ i = 0
    /\ out = <<>>
    /\ printed = <<>>
    /\ calls = 0
    /\ gens = 0
    /\ err = NoError

(***************************************************************************)
(* The 'shift-jis' codec, for the characters the tables hold.  A character *)
(* of JIS X 0208 has a row and a cell (1..94 each), which the codec shifts *)
(* into a lead and a trail byte.  Kuten gives <<row, cell>>, or <<>> for a *)
(* character outside the set.                                              *)
(***************************************************************************)
Row1Cells ==
    [c \in {12288, 12289, 12290, 65311, 65281, 12540, 8230, 12300, 12301} |->
        CASE c = 12288 -> 1     \* U+3000 ideographic space
          [] c = 12289 -> 2     \* U+3001
          [] c = 12290 -> 3     \* U+3002
          [] c = 65311 -> 9     \* U+FF1F
          [] c = 65281 -> 10    \* U+FF01
          [] c = 12540 -> 28    \* U+30FC
          [] c = 8230  -> 36    \* U+2026
          [] c = 12300 -> 54    \* U+300C
          [] c = 12301 -> 55]   \* U+300D

Kuten(c) ==
    IF c \in DOMAIN Row1Cells THEN <<1, Row1Cells[c]>>
    ELSE IF c >= 12353 /\ c <= 12435 THEN <<4, c - 12352>>   \* hiragana
    ELSE IF c >= 12449 /\ c <= 12534 THEN <<5, c - 12448>>   \* katakana
    ELSE <<>>

\* A wrong codec: the EUC-JP bytes of the same row and cell.
KutenToEUC(row, cell) == <<row + 160, cell + 160>>

KutenToSJIS(row, cell) ==
    LET lead  == IF row <= 62 THEN ((row + 1) \div 2) + 128
                              ELSE ((row + 1) \div 2) + 192
        trail == IF row % 2 = 1
                 THEN (IF cell <= 63 THEN cell + 63 ELSE cell + 64)
                 ELSE cell + 158
    IN  <<lead, trail>>

\* unicode.encode('shift-jis'): the bytes of c, or <<>> when the codec has
\* none and calls the error handler.
SJIS(c) ==
    IF c < 128 THEN <<c>>
    ELSE IF c = 165 THEN <<92>>
    ELSE IF c = 8254 THEN <<126>>
    ELSE IF c >= 65377 /\ c <= 65439 THEN <<c - 65216>>    \* JIS X 0201 kana
    ELSE IF Kuten(c) # <<>> THEN KutenToSJIS(Kuten(c)[1], Kuten(c)[2])
    ELSE <<>>

(***************************************************************************)
(* The 'backslashreplace' error handler: \xNN, \uNNNN or \UNNNNNNNN in     *)
(* ASCII, with lowercase hexadecimal digits of fixed width.                *)
(***************************************************************************)
HexDigitByte(d) == IF d < 10 THEN 48 + d ELSE 87 + d

RECURSIVE HexBytes(_, _)
HexBytes(n, width) ==
    IF width = 0 THEN <<>>
    ELSE Append(HexBytes(n \div 16, width - 1), HexDigitByte(n % 16))

\* The 'replace' handler, which a caller might have named instead.
QuestionReplace(c) == <<63>>

Backslashreplace(c) ==
    IF c < 256 THEN <<92, 120>> \o HexBytes(c, 2)
    ELSE IF c < 65536 THEN <<92, 117>> \o HexBytes(c, 4)
    ELSE <<92, 85>> \o HexBytes(c, 8)

\* line 16: zk.encode('shift-jis', 'backslashreplace')
zk_bytes(zk) == IF SJIS(zk) # <<>> THEN SJIS(zk) ELSE Backslashreplace(zk)

\* The same without the position-zero branch.
hk_byte_generic(idx, hk) == SJIS(hk)

\* lines 17-20: the fixed byte at position zero, else hk.encode('shift-jis');
\* <<>> stands for the UnicodeEncodeError of the strict handler.
hk_byte(idx, hk) == IF idx = 0 THEN <<160>> ELSE SJIS(hk)

\* ord() of a byte string of any length, taking its first byte.
OrdFirstDefined(b) == Len(b) >= 1

\* line 21: ord() takes a string of length one, else TypeError.
OrdDefined(b) == Len(b) = 1

Ord(b) == b[1]

(***************************************************************************)
(* One iteration of the loop of gen_mapping (lines 14-24) at position idx: *)
(* the exception it raises, with the line, or NoError.                     *)
(***************************************************************************)
StepError(idx) ==
    IF idx >= Len(ZENKAKU) THEN [exc |-> "IndexError", line |-> 15]
    ELSE LET hb == hk_byte(idx, HANKAKU[idx + 1])
             zb == zk_bytes(ZENKAKU[idx + 1])
         IN  IF hb = <<>> THEN [exc |-> "UnicodeEncodeError", line |-> 20]
             ELSE IF ~OrdDefined(hb) THEN [exc |-> "TypeError", line |-> 21]
             ELSE IF Len(zb) < 2 THEN [exc |-> "IndexError", line |-> 23]
             ELSE NoError

\* line 23: cur = int(byte_index), ord(zk_bytes[0]), ord(zk_bytes[1])
cur(idx) ==
    LET hb == hk_byte(idx, HANKAKU[idx + 1])
        zb == zk_bytes(ZENKAKU[idx + 1])
    IN  <<Ord(hb), zb[1], zb[2]>>

\* MAPPING.insert(0, cur) in place of append.
PrependEntry(m, e) == <<e>> \o m

\* line 24: MAPPING.append(cur)
AppendEntry(m, e) == Append(m, e)

(***************************************************************************)
(* gen_mapping()                                                           *)
(***************************************************************************)
CallGenMapping ==
    /\ pc = "idle"
    /\ calls < MaxCalls
    /\ pc' = "gen"
    /\ i' = 0
    /\ calls' = calls + 1
    /\ UNCHANGED <<HANKAKU, ZENKAKU, MAPPING, out, printed, gens, err>>

GenStep ==
    /\ pc = "gen"
    /\ i < Len(HANKAKU)
    /\ StepError(i) = NoError
    /\ MAPPING' = AppendEntry(MAPPING, cur(i))
    /\ i' = i + 1
    /\ UNCHANGED <<HANKAKU, ZENKAKU, pc, out, printed, calls, gens, err>>

GenRaise ==
    /\ pc = "gen"
    /\ i < Len(HANKAKU)
    /\ StepError(i) # NoError
    /\ err' = StepError(i)
    /\ pc' = "raised"
    /\ UNCHANGED <<HANKAKU, ZENKAKU, MAPPING, i, out, printed, calls, gens>>

GenReturn ==
    /\ pc = "gen"
    /\ i = Len(HANKAKU)
    /\ pc' = "idle"
    /\ gens' = gens + 1
    /\ UNCHANGED <<HANKAKU, ZENKAKU, MAPPING, i, out, printed, calls, err>>

(***************************************************************************)
(* output()                                                                *)
(***************************************************************************)
LowerHexDigits == <<"0", "1", "2", "3", "4", "5", "6", "7",
                    "8", "9", "a", "b", "c", "d", "e", "f">>

\* %x: the digits of n, most significant first, as many as n needs.
RECURSIVE HexStr(_)
HexStr(n) ==
    IF n < 16 THEN LowerHexDigits[n + 1]
    ELSE HexStr(n \div 16) \o LowerHexDigits[(n % 16) + 1]

\* %x, without the zero flag and the width.
Fmt_x(n) == HexStr(n)

\* %02x: padded with zeros on the left to at least two characters.
Fmt02x(n) == IF Len(HexStr(n)) < 2 THEN "0" \o HexStr(n) ELSE HexStr(n)

\* line 27
HeaderLine == "static htoz_table_entry htoz_table[] = {"

\* line 29
EntryLine(e) ==
    "    { 0x" \o Fmt02x(e[1]) \o ", { 0x" \o Fmt02x(e[2])
               \o ", 0x" \o Fmt02x(e[3]) \o " } },"

\* A footer that lost its semicolon.
FooterLineBare == "}"

\* line 30
FooterLine == "};"

CallOutput ==
    /\ pc = "idle"
    /\ calls < MaxCalls
    /\ pc' = "output"
    /\ i' = 0
    /\ calls' = calls + 1
    /\ out' = <<HeaderLine>>
    /\ UNCHANGED <<HANKAKU, ZENKAKU, MAPPING, printed, gens, err>>

OutputEntry ==
    /\ pc = "output"
    /\ i < Len(MAPPING)
    /\ out' = Append(out, EntryLine(MAPPING[i + 1]))
    /\ i' = i + 1
    /\ UNCHANGED <<HANKAKU, ZENKAKU, MAPPING, pc, printed, calls, gens, err>>

OutputFooter ==
    /\ pc = "output"
    /\ i = Len(MAPPING)
    /\ out' = Append(out, FooterLine)
    /\ printed' = Append(printed, [gens |-> gens, text |-> out'])
    /\ pc' = "idle"
    /\ UNCHANGED <<HANKAKU, ZENKAKU, MAPPING, i, calls, gens, err>>

Next ==
    \/ CallGenMapping
    \/ GenStep
    \/ GenRaise
    \/ GenReturn
    \/ CallOutput
    \/ OutputEntry
    \/ OutputFooter

Spec == Init /\ [][Next]_vars

(***************************************************************************)
(* Properties.                                                             *)
(***************************************************************************)
Fixed == HANKAKU = FixedHANKAKU /\ ZENKAKU = FixedZENKAKU

\* The position (1-based) of the pair that entry k of MAPPING was built from:
\* every call that returns appends one entry per position, in order.
PairOf(k) == ((k - 1) % Len(HANKAKU)) + 1

IsByte(v) == v \in 0..255

\* Exactly two lowercase hexadecimal digits holding v.
TwoHexDigits(v) ==
    IF IsByte(v)
    THEN LowerHexDigits[(v \div 16) + 1] \o LowerHexDigits[(v % 16) + 1]
    ELSE "--"

ExpectedLine(e) ==
    "    { 0x" \o TwoHexDigits(e[1]) \o ", { 0x" \o TwoHexDigits(e[2])
               \o ", 0x" \o TwoHexDigits(e[3]) \o " } },"

HeaderFooterOf(text, finished) ==
    /\ text # <<>> => text[1] = "static htoz_table_entry htoz_table[] = {"
    /\ \A k \in 2..Len(text) : text[k] # "static htoz_table_entry htoz_table[] = {"
    /\ \A k \in 1..Len(text) : text[k] = "};" => (k = Len(text) /\ finished)
    /\ (finished /\ text # <<>>) => (Len(text) >= 2 /\ text[Len(text)] = "};")

\* C1: whatever MAPPING holds, what output() prints starts with the header
\* line, ends with the footer line once the call has finished, holds each of
\* the two exactly once, and so has every entry line strictly between them.
C1_HeaderAndFooter ==
    /\ HeaderFooterOf(out, pc # "output")
    /\ pc = "output" => out # <<>>
    /\ \A r \in 1..Len(printed) :
          /\ printed[r].text # <<>>
          /\ HeaderFooterOf(printed[r].text, TRUE)

\* C1 witness: in one process output() has printed an empty table and a table
\* of 128 entries.
C1_Witness ==
    /\ Fixed
    /\ \E a, b \in 1..Len(printed) :
          Len(printed[a].text) = 2 /\ Len(printed[b].text) = 130

\* C2: when output() returns it has printed len(MAPPING)+2 lines, and line
\* k+1 is the template filled with entry k's three values, each as exactly two
\* zero-padded lowercase hexadecimal digits, in MAPPING order.
C2_OneLinePerEntry ==
    [][(pc = "output" /\ pc' = "idle") =>
          /\ Len(out') = Len(MAPPING) + 2
          /\ \A k \in 1..Len(MAPPING) : out'[k + 1] = ExpectedLine(MAPPING[k])
          /\ printed'[Len(printed')].text = out']_vars

\* C2 witness: output() has returned after printing a table with an entry
\* whose index needs the zero padding.
C2_Witness ==
    /\ pc = "idle"
    /\ Len(MAPPING) >= 2
    /\ Len(out) = Len(MAPPING) + 2
    /\ \E k \in 1..Len(MAPPING) : MAPPING[k][1] < 16

\* C3 (as claimed): when the two tables differ in length, in either
\* direction, gen_mapping() never returns normally.
C3_MismatchRaises == Len(HANKAKU) # Len(ZENKAKU) => gens = 0

\* The escape letter of the backslash replacement of c: x, u or U.
EscapeLetter(c) == IF c < 256 THEN 120 ELSE IF c < 65536 THEN 117 ELSE 85

\* C4: at a position whose full-width character has no SHIFT_JIS form, the
\* iteration does not abort on that character: it appends the entry
\* (index byte, 0x5c, escape letter) and goes on to the next pair; the only
\* way the iteration ends the run is the half-width side of the same pair
\* (lines 20 and 21).
C4_ZenkakuFallback ==
    [][(/\ pc = "gen"
        /\ i < Len(HANKAKU)
        /\ i < Len(ZENKAKU)
        /\ SJIS(ZENKAKU[i + 1]) = <<>>) =>
          IF i = 0 \/ Len(SJIS(HANKAKU[i + 1])) = 1
          THEN /\ pc' = "gen"
               /\ i' = i + 1
               /\ err' = NoError
               /\ MAPPING' = Append(MAPPING,
                      << IF i = 0 THEN 160 ELSE SJIS(HANKAKU[i + 1])[1],
                         92, EscapeLetter(ZENKAKU[i + 1]) >>)
          ELSE /\ pc' = "raised"
               /\ err'.line \in {20, 21}
               /\ MAPPING' = MAPPING]_vars

\* C4 witness: gen_mapping() has returned from a table whose first full-width
\* character is U+20AC and whose second is U+00E9, with both entries built.
C4_Witness ==
    /\ gens = 1
    /\ ZENKAKU = <<8364, 233>>
    /\ Len(MAPPING) = 2
    /\ MAPPING[1] = <<160, 92, 117>>
    /\ MAPPING[2][2] = 92 /\ MAPPING[2][3] = 120

\* C5 (as claimed): no run of gen_mapping() ends on a character that
\* SHIFT_JIS cannot represent, whichever of the two encoders met it.
C5_NeverAbortsOnUnencodable == err.exc # "UnicodeEncodeError"

\* C6: the first entry of every pass has the index byte 0xA0, which is not
\* what the generic encoder gives for the table's first character; every
\* other entry has the byte the generic encoder gives for its half-width
\* character.
C6_FirstEntryFixedByte ==
    \A k \in 1..Len(MAPPING) :
        IF PairOf(k) = 1
        THEN MAPPING[k][1] = 160 /\ SJIS(HANKAKU[1]) # <<160>>
        ELSE <<MAPPING[k][1]>> = SJIS(HANKAKU[PairOf(k)])

\* C6 witness: gen_mapping() has returned once on the program's tables.
C6_Witness == Fixed /\ gens = 1 /\ Len(MAPPING) = 64 /\ pc = "idle"

\* C7 (as claimed): on the program's tables, every output() that follows at
\* least one gen_mapping() prints the same text, whether one or two calls of
\* gen_mapping() came before it.
C7_SecondRunIdentical ==
    Fixed =>
        \A a, b \in 1..Len(printed) :
            (printed[a].gens >= 1 /\ printed[b].gens >= 1)
                => printed[a].text = printed[b].text

NotSortedByIndex(m) == \E k \in 1..(Len(m) - 1) : m[k][1] > m[k + 1][1]

IsPrefix(s, t) == Len(s) <= Len(t) /\ \A k \in 1..Len(s) : s[k] = t[k]

\* C8: after one gen_mapping() on the program's tables MAPPING has 64
\* entries, one per pair in pair order, entry k being (byte of h[k], first and
\* second byte of z[k]), not sorted by index byte; and no step of any call
\* removes or changes an entry that MAPPING already holds.
C8_OneEntryPerPair ==
    /\ [](Fixed /\ gens = 1 /\ pc # "gen" =>
            /\ Len(HANKAKU) = 64 /\ Len(ZENKAKU) = 64 /\ Len(MAPPING) = 64
            /\ \A k \in 1..64 :
                  MAPPING[k] =
                      << IF k = 1 THEN 160 ELSE SJIS(HANKAKU[k])[1],
                         SJIS(ZENKAKU[k])[1], SJIS(ZENKAKU[k])[2] >>
            /\ NotSortedByIndex(MAPPING))
    /\ [][IsPrefix(MAPPING, MAPPING')]_vars

\* C8 witness: the table of the program after one gen_mapping(), printed.
C8_Witness ==
    /\ Fixed /\ gens = 1 /\ pc = "idle" /\ Len(MAPPING) = 64
    /\ printed # <<>> /\ Len(printed[Len(printed)].text) = 66

\* The SHIFT_JIS bytes of five pairs of the program's tables, from the code
\* charts: the first, U+FF61/U+3002, the two in the middle, and the last.
KnownEntries ==
    [k \in {1, 5, 32, 33, 64} |->
        CASE k = 1  -> <<160, 129, 64>>     \* 0xa0, 0x81 0x40
          [] k = 5  -> <<161, 129, 66>>     \* 0xa1, 0x81 0x42
          [] k = 32 -> <<189, 130, 183>>    \* 0xbd, 0x82 0xb7
          [] k = 33 -> <<190, 130, 185>>    \* 0xbe, 0x82 0xb9
          [] k = 64 -> <<221, 130, 241>>]   \* 0xdd, 0x82 0xf1

\* C9: on the program's tables, the entries of the first pair, of the pair
\* U+FF61/U+3002, of the middle pairs and of the last pair U+FF9D/U+3093 are
\* the known SHIFT_JIS bytes of these characters.
C9_KnownBytes ==
    Fixed =>
        /\ HANKAKU[5] = 65377 /\ ZENKAKU[5] = 12290
        /\ HANKAKU[64] = 65437 /\ ZENKAKU[64] = 12435
        /\ \A k \in DOMAIN KnownEntries :
              Len(MAPPING) >= k => MAPPING[k] = KnownEntries[k]

\* C9 witness: all 64 entries of the program's tables are built.
C9_Witness == Fixed /\ Len(MAPPING) >= 64

\* C10: every entry of MAPPING is three byte values, and an entry exists only
\* for a pair whose half-width character gave exactly one byte (or stands at
\* position zero) and whose full-width encoding has at least two bytes.
C10_EntriesAreBytes ==
    \A k \in 1..Len(MAPPING) :
        /\ IsByte(MAPPING[k][1]) /\ IsByte(MAPPING[k][2]) /\ IsByte(MAPPING[k][3])
        /\ PairOf(k) = 1 \/ Len(SJIS(HANKAKU[PairOf(k)])) = 1
        /\ PairOf(k) <= Len(ZENKAKU)
        /\ Len(zk_bytes(ZENKAKU[PairOf(k)])) >= 2

\* C10 witness: a run stopped by a half-width character of two bytes, after an
\* entry was built.
C10_Witness ==
    /\ pc = "raised"
    /\ err = [exc |-> "TypeError", line |-> 21]
    /\ Len(MAPPING) >= 1

====
